---- MODULE Spec2Model ----
(***************************************************************************)
(* A model of petab.Problem (src/petab/problem.py): the accessors of the   *)
(* parameter table (ids, indices, nominal values, bounds, free/fixed       *)
(* masks), also under assignments to parameter_df, the scale/unscale      *)
(* utilities, the writers to_files and to_files_generic, the factory       *)
(* from_yaml, the delegation to the parameter mapping, and the pickling    *)
(* state (__getstate__, __setstate__).                                     *)
(***************************************************************************)
EXTENDS Integers, Sequences, FiniteSets, TLC

VARIABLES
    held,           \* the attributes of the Problem that are not None
    parameter_df,   \* Problem.parameter_df: the rows of the parameter table, in table order
    condition_df,   \* Problem.condition_df: the rows of the condition table
    measurement_df, \* Problem.measurement_df: the rows of the measurement table
    x_dict,         \* the caller's mapping parameter id -> value, passed to (un)scale_parameters
    x_orig,         \* <<x>> when x_dict is what scale_parameters returned for x, else <<>>
    call,           \* the call made last: its name and arguments
    result,         \* what that call returned
    raised,         \* the exception that call raised, or "none"
    writes,         \* the files that call wrote, in the order written
    from_files_calls, \* the invocations of Problem.from_files that call made
    replaced,       \* <<the table the last assignment to parameter_df replaced>>, <<>> before any
    self_dict,      \* self.__dict__ of the Problem whose state is pickled: attribute -> value
    unpickled       \* the __dict__ of the object __setstate__ was applied to

vars == <<held, parameter_df, condition_df, measurement_df, x_dict, x_orig,
          call, result, raised, writes, from_files_calls, replaced, self_dict, unpickled>>

\* what the accessors of the parameter table leave alone
notAccessors == <<held, parameter_df, condition_df, measurement_df, x_dict, x_orig,
                  raised, writes, from_files_calls, replaced, self_dict, unpickled>>

-----------------------------------------------------------------------------
(* Bounds of the model *)

\* the largest number of rows of a parameter table
MaxRows == 2

-----------------------------------------------------------------------------
(* Numbers.  A float is held as a term: the integer n under the functions  *)
(* of ops, outermost first; <<>> is n itself.  log, log10, exp and 10**    *)
(* are exact on terms, a function cancelling against its inverse.          *)

Real(n) == [ops |-> <<>>, n |-> n]

\* parameterScale values (petab.C: LIN, LOG, LOG10)
LIN == "lin"
LOG == "log"
LOG10 == "log10"
Scales == {LIN, LOG, LOG10}

Inverse(f) ==
    CASE f = "log" -> "exp"
      [] f = "exp" -> "log"
      [] f = "log10" -> "pow10"
      [] f = "pow10" -> "log10"

\* f(x) for f in log, log10, exp, pow10.  exp(log(x)) = x needs x >= 0
\* (log of a negative number is nan, and stays nan); log(exp(x)) = x always.
ApplyFn(f, x) ==
    IF x.ops # <<>> /\ Head(x.ops) = Inverse(f)
       /\ (f \in {"log", "log10"} \/ (Len(x.ops) = 1 /\ x.n >= 0))
    THEN [ops |-> Tail(x.ops), n |-> x.n]
    ELSE [ops |-> <<f>> \o x.ops, n |-> x.n]

\* petab.parameters.scale
scale(parameter, scale_str) ==
    CASE scale_str = LIN -> parameter
      [] scale_str = LOG -> ApplyFn("log", parameter)
      [] scale_str = LOG10 -> ApplyFn("log10", parameter)

\* petab.parameters.unscale
unscale(parameter, scale_str) ==
    CASE scale_str = LIN -> parameter
      [] scale_str = LOG -> ApplyFn("exp", parameter)
      [] scale_str = LOG10 -> ApplyFn("pow10", parameter)

\* petab.parameters.map_scale: element-wise, each value with the scale paired to it
map_scale(parameters, scale_strs) ==
    [j \in 1..Len(parameters) |-> scale(parameters[j], scale_strs[j])]

-----------------------------------------------------------------------------
(* The parameter table *)

\* parameter ids a table may use
ParamIds == {"k1", "k2", "k3"}

\* (lowerBound, nominalValue, upperBound) of a row
Profiles == {<<0, 2, 10>>, <<0, 1, 5>>}

RowsOver(profiles, estimates) ==
    {[parameterId |-> i, lowerBound |-> Real(p[1]), nominalValue |-> Real(p[2]),
      upperBound |-> Real(p[3]), parameterScale |-> s, estimate |-> e] :
        i \in ParamIds, p \in profiles, s \in Scales, e \in estimates}

ParamRows == RowsOver(Profiles, {0, 1})

\* tables of n rows, the parameter ids unique (parameterId is the index)
TablesOfLen(rows, n) ==
    {t \in [1..n -> rows] :
        \A a, b \in 1..n : a # b => t[a].parameterId # t[b].parameterId}

ParamTables == UNION {TablesOfLen(ParamRows, n) : n \in 0..MaxRows}

\* df[column] as a list, in table order
Column(df, col) == [j \in 1..Len(df) |-> df[j][col]]

\* [v[ix] for ix in indices]; indices are 0-based as in the source
Take(v, indices) == [j \in 1..Len(indices) |-> v[indices[j] + 1]]

\* [j for j, val in enumerate(estimated) if keep(val)], built left to right
RECURSIVE IndicesWhere(_, _, _)
IndicesWhere(estimated, j, free) ==
    IF j >= Len(estimated) THEN <<>>
    ELSE LET val == estimated[j + 1]
             rest == IndicesWhere(estimated, j + 1, free)
         IN IF (free /\ val # 0) \/ (~free /\ val = 0) THEN <<j>> \o rest ELSE rest

x_free_indices(df) == IndicesWhere(Column(df, "estimate"), 0, TRUE)

\* x_fixed_indices with the test of x_free_indices copied unchanged
x_fixed_indices_copied(df) == IndicesWhere(Column(df, "estimate"), 0, TRUE)

x_fixed_indices(df) == IndicesWhere(Column(df, "estimate"), 0, FALSE)

\* _apply_mask with the two index lists exchanged
apply_mask_swapped(df, v, free, fixed) ==
    IF ~free /\ ~fixed THEN <<>>
    ELSE IF ~free THEN Take(v, x_free_indices(df))
    ELSE IF ~fixed THEN Take(v, x_fixed_indices(df))
    ELSE v

\* _apply_mask selecting by value: the elements equal to the value of a selected row
apply_mask_by_value(df, v, free, fixed) ==
    LET Among(indices) ==
            SelectSeq(v, LAMBDA x : \E j \in 1..Len(indices) : v[indices[j] + 1] = x)
    IN IF ~free /\ ~fixed THEN <<>>
       ELSE IF ~free THEN Among(x_fixed_indices(df))
       ELSE IF ~fixed THEN Among(x_free_indices(df))
       ELSE v

apply_mask(df, v, free, fixed) ==
    IF ~free /\ ~fixed THEN <<>>
    ELSE IF ~free THEN Take(v, x_fixed_indices(df))
    ELSE IF ~fixed THEN Take(v, x_free_indices(df))
    ELSE v

\* get_x_ids returning ids kept from before the last assignment to parameter_df
get_x_ids_cached(df, free, fixed) ==
    LET old == IF replaced # <<>> THEN replaced[1] ELSE df
    IN apply_mask(old, Column(old, "parameterId"), free, fixed)

get_x_ids(df, free, fixed) ==
    apply_mask(df, Column(df, "parameterId"), free, fixed)

x_ids(df) == get_x_ids(df, TRUE, TRUE)

x_free_ids(df) == get_x_ids(df, TRUE, FALSE)

x_fixed_ids(df) == get_x_ids(df, FALSE, TRUE)

\* get_x_nominal, get_lb and get_ub differ in the column only
get_column(df, col, free, fixed, scaled) ==
    LET v == Column(df, col)
    IN apply_mask(df,
                  IF scaled THEN map_scale(v, Column(df, "parameterScale")) ELSE v,
                  free, fixed)

get_x_nominal(df, free, fixed, scaled) == get_column(df, "nominalValue", free, fixed, scaled)

get_lb(df, free, fixed, scaled) == get_column(df, "lowerBound", free, fixed, scaled)

get_ub(df, free, fixed, scaled) == get_column(df, "upperBound", free, fixed, scaled)

-----------------------------------------------------------------------------
(* Accessor calls on a Problem *)

NoCall == [op |-> "none", free |-> TRUE, fixed |-> TRUE, scaled |-> FALSE]

Called(op, free, fixed, scaled) ==
    [op |-> op, free |-> free, fixed |-> fixed, scaled |-> scaled]

\* a mapping without keys
EmptyDict == [k \in {} |-> Real(0)]

InitParams ==
    /\ parameter_df \in ParamTables
    /\ held = {"parameter_df"}
    /\ condition_df = <<>>
    /\ measurement_df = <<>>
    /\ x_dict = EmptyDict
    /\ x_orig = <<>>
    /\ call = NoCall
    /\ result = <<>>
    /\ raised = "none"
    /\ writes = <<>>
    /\ from_files_calls = <<>>
    /\ replaced = <<>>
    /\ self_dict = <<>>
    /\ unpickled = <<>>

CallGetXIds ==
    \E free, fixed \in BOOLEAN :
        /\ call' = Called("get_x_ids", free, fixed, FALSE)
        /\ result' = get_x_ids(parameter_df, free, fixed)
        /\ UNCHANGED notAccessors

CallXIds ==
    /\ call' = Called("x_ids", TRUE, TRUE, FALSE)
    /\ result' = x_ids(parameter_df)
    /\ UNCHANGED notAccessors

CallXFreeIds ==
    /\ call' = Called("x_free_ids", TRUE, FALSE, FALSE)
    /\ result' = x_free_ids(parameter_df)
    /\ UNCHANGED notAccessors

CallXFixedIds ==
    /\ call' = Called("x_fixed_ids", FALSE, TRUE, FALSE)
    /\ result' = x_fixed_ids(parameter_df)
    /\ UNCHANGED notAccessors

CallGetXNominal ==
    \E free, fixed, scaled \in BOOLEAN :
        /\ call' = Called("get_x_nominal", free, fixed, scaled)
        /\ result' = get_x_nominal(parameter_df, free, fixed, scaled)
        /\ UNCHANGED notAccessors

CallGetLb ==
    \E free, fixed, scaled \in BOOLEAN :
        /\ call' = Called("get_lb", free, fixed, scaled)
        /\ result' = get_lb(parameter_df, free, fixed, scaled)
        /\ UNCHANGED notAccessors

CallGetUb ==
    \E free, fixed, scaled \in BOOLEAN :
        /\ call' = Called("get_ub", free, fixed, scaled)
        /\ result' = get_ub(parameter_df, free, fixed, scaled)
        /\ UNCHANGED notAccessors

CallXFreeIndices ==
    /\ call' = Called("x_free_indices", TRUE, FALSE, FALSE)
    /\ result' = x_free_indices(parameter_df)
    /\ UNCHANGED notAccessors

CallXFixedIndices ==
    /\ call' = Called("x_fixed_indices", FALSE, TRUE, FALSE)
    /\ result' = x_fixed_indices(parameter_df)
    /\ UNCHANGED notAccessors

NextParams ==
    \/ CallGetXIds
    \/ CallXIds
    \/ CallXFreeIds
    \/ CallXFixedIds
    \/ CallGetXNominal
    \/ CallGetLb
    \/ CallGetUb
    \/ CallXFreeIndices
    \/ CallXFixedIndices

SpecParams == InitParams /\ [][NextParams]_vars

-----------------------------------------------------------------------------
(* Properties of the parameter table accessors *)

\* the rows a (free, fixed) filter keeps, in table order
RowsKept(df, free, fixed) ==
    SelectSeq(df, LAMBDA r : (free /\ r.estimate # 0) \/ (fixed /\ r.estimate = 0))

IdsKept(df, free, fixed) ==
    LET rows == RowsKept(df, free, fixed)
    IN [j \in 1..Len(rows) |-> rows[j].parameterId]

SeqRange(s) == {s[j] : j \in 1..Len(s)}

StrictlyIncreasing(s) == \A a, b \in 1..Len(s) : a < b => s[a] < s[b]

\* C1: get_x_ids(free, fixed) returns all ids in table order when both flags are
\* true, the empty list when both are false, the ids of the rows with
\* estimate != 0 when only free is true and of the rows with estimate == 0 when
\* only fixed is true, in table order; x_ids, x_free_ids and x_fixed_ids are the
\* full, the free-only and the fixed-only list.
C1_GetXIdsFilters ==
    /\ call.op = "get_x_ids" => result = IdsKept(parameter_df, call.free, call.fixed)
    /\ call.op = "get_x_ids" /\ call.free /\ call.fixed =>
            result = [j \in 1..Len(parameter_df) |-> parameter_df[j].parameterId]
    /\ call.op = "get_x_ids" /\ ~call.free /\ ~call.fixed => result = <<>>
    /\ call.op = "x_ids" => result = IdsKept(parameter_df, TRUE, TRUE)
    /\ call.op = "x_free_ids" => result = IdsKept(parameter_df, TRUE, FALSE)
    /\ call.op = "x_fixed_ids" => result = IdsKept(parameter_df, FALSE, TRUE)

\* the scenario of the specification: ids [k1, k2], estimate [1, 0]; x_free_ids
\* has returned [k1]
C1_Witness ==
    /\ call.op = "x_free_ids"
    /\ Len(parameter_df) = 2
    /\ parameter_df[1].parameterId = "k1" /\ parameter_df[1].estimate = 1
    /\ parameter_df[2].parameterId = "k2" /\ parameter_df[2].estimate = 0
    /\ result = <<"k1">>

\* C2: x_free_indices and x_fixed_indices are strictly increasing, disjoint, and
\* together exactly the index range 0..n-1 of the table; the free ids and the
\* fixed ids are together as many as all ids, and get_x_ids(False, False) is [].
C2_IndexPartition ==
    LET n == Len(parameter_df)
        other == IF call.op = "x_free_indices" THEN x_fixed_indices(parameter_df)
                 ELSE x_free_indices(parameter_df)
    IN /\ call.op \in {"x_free_indices", "x_fixed_indices"} =>
            /\ StrictlyIncreasing(result)
            /\ StrictlyIncreasing(other)
            /\ SeqRange(result) \cap SeqRange(other) = {}
            /\ SeqRange(result) \cup SeqRange(other) = 0..(n - 1)
       /\ call.op = "x_free_ids" =>
            Len(result) + Len(x_fixed_ids(parameter_df)) = Len(x_ids(parameter_df))
       /\ call.op = "x_fixed_ids" =>
            Len(result) + Len(x_free_ids(parameter_df)) = Len(x_ids(parameter_df))
       /\ call.op = "get_x_ids" /\ ~call.free /\ ~call.fixed => result = <<>>

\* a table of two rows, the first fixed and the second free: x_free_indices has
\* returned [1]
C2_Witness ==
    /\ call.op = "x_free_indices"
    /\ Len(parameter_df) = 2
    /\ parameter_df[1].estimate = 0 /\ parameter_df[2].estimate = 1
    /\ result = <<1>>

\* the column an accessor reads
ColumnOf(op) ==
    CASE op = "get_x_nominal" -> "nominalValue"
      [] op = "get_lb" -> "lowerBound"
      [] op = "get_ub" -> "upperBound"

\* C3: get_x_nominal, get_lb and get_ub select by row position: element j of the
\* result is the value of the j-th row the (free, fixed) filter keeps, under
\* scaled=True transformed with that row's own parameterScale, so it belongs to
\* the parameter get_x_ids(free, fixed)[j], also when values repeat across rows.
C3_ValuesFollowRows ==
    call.op \in {"get_x_nominal", "get_lb", "get_ub"} =>
        LET rows == RowsKept(parameter_df, call.free, call.fixed)
            col == ColumnOf(call.op)
            ids == get_x_ids(parameter_df, call.free, call.fixed)
        IN /\ Len(result) = Len(rows)
           /\ Len(result) = Len(ids)
           /\ \A j \in 1..Len(rows) :
                /\ rows[j].parameterId = ids[j]
                /\ result[j] = IF call.scaled
                                THEN scale(rows[j][col], rows[j].parameterScale)
                                ELSE rows[j][col]

\* the nominal value 2 repeats in a free and a fixed row of different scale;
\* get_x_nominal(free=False, scaled=True) has returned log10(2) alone
C3_Witness ==
    /\ call = Called("get_x_nominal", FALSE, TRUE, TRUE)
    /\ Len(parameter_df) = 2
    /\ parameter_df[1].nominalValue = Real(2) /\ parameter_df[1].estimate = 1
    /\ parameter_df[1].parameterScale = LIN
    /\ parameter_df[2].nominalValue = Real(2) /\ parameter_df[2].estimate = 0
    /\ parameter_df[2].parameterScale = LOG10
    /\ result = <<[ops |-> <<"log10">>, n |-> 2]>>

-----------------------------------------------------------------------------
(* Assignments to Problem.parameter_df between the accessor calls *)

\* the rows of the tables that get replaced: scale lin or log10, one profile
ReassignRows == {r \in RowsOver({<<0, 2, 10>>}, {0, 1}) : r.parameterScale # LOG}

ReassignTables == UNION {TablesOfLen(ReassignRows, n) : n \in 0..MaxRows}

\* the table of the scenario of the specification: ids [k1, k2], bounds
\* [(0, 10), (0, 5)], nominal [2, 1], scale [lin, log10], estimate [1, 0]
ScenarioTable ==
    <<[parameterId |-> "k1", lowerBound |-> Real(0), nominalValue |-> Real(2),
       upperBound |-> Real(10), parameterScale |-> LIN, estimate |-> 1],
      [parameterId |-> "k2", lowerBound |-> Real(0), nominalValue |-> Real(1),
       upperBound |-> Real(5), parameterScale |-> LOG10, estimate |-> 0]>>

\* the tables a caller assigns in place of df: df edited (the estimate flag of
\* one row flipped, the rows in reverse order, the last row dropped) or another
\* table altogether (the empty table, the table of the scenario)
Reassignments(df) ==
    {[df EXCEPT ![j].estimate = 1 - @] : j \in 1..Len(df)}
        \cup {[j \in 1..Len(df) |-> df[Len(df) + 1 - j]]}
        \cup (IF df = <<>> THEN {} ELSE {SubSeq(df, 1, Len(df) - 1)})
        \cup {<<>>, ScenarioTable}

InitReassign ==
    /\ parameter_df \in ReassignTables
    /\ held = {"parameter_df"}
    /\ condition_df = <<>>
    /\ measurement_df = <<>>
    /\ x_dict = EmptyDict
    /\ x_orig = <<>>
    /\ call = NoCall
    /\ result = <<>>
    /\ raised = "none"
    /\ writes = <<>>
    /\ from_files_calls = <<>>
    /\ replaced = <<>>
    /\ self_dict = <<>>
    /\ unpickled = <<>>

\* problem.parameter_df = df: the attribute is public and plain, the assignment
\* replaces the table and does nothing else
AssignParameterDf ==
    \E df \in Reassignments(parameter_df) :
        /\ parameter_df' = df
        /\ replaced' = <<parameter_df>>
        /\ call' = Called("parameter_df", TRUE, TRUE, FALSE)
        /\ result' = <<>>
        /\ UNCHANGED <<held, condition_df, measurement_df, x_dict, x_orig, raised, writes,
                       from_files_calls, self_dict, unpickled>>

NextReassign ==
    \/ NextParams
    \/ AssignParameterDf

SpecReassign == InitReassign /\ [][NextReassign]_vars

\* the accessors of the claim and get_x_ids, on which three of them rest
AccessorOps ==
    {"get_x_ids", "x_ids", "x_free_ids", "x_fixed_ids", "x_free_indices",
     "x_fixed_indices", "get_x_nominal", "get_lb", "get_ub"}

\* the members of a set of numbers in increasing order
Ascending(S) ==
    [i \in 1..Cardinality(S) |-> CHOOSE x \in S : Cardinality({y \in S : y < x}) = i - 1]

\* what the accessor call c owes to the table df: the ids, positions or values
\* of the rows of df its filter keeps
Owed(c, df) ==
    LET rows == RowsKept(df, c.free, c.fixed)
    IN CASE c.op \in {"get_x_ids", "x_ids", "x_free_ids", "x_fixed_ids"} ->
                [j \in 1..Len(rows) |-> rows[j].parameterId]
         [] c.op = "x_free_indices" ->
                Ascending({j - 1 : j \in {i \in 1..Len(df) : df[i].estimate # 0}})
         [] c.op = "x_fixed_indices" ->
                Ascending({j - 1 : j \in {i \in 1..Len(df) : df[i].estimate = 0}})
         [] c.op \in {"get_x_nominal", "get_lb", "get_ub"} ->
                [j \in 1..Len(rows) |->
                    IF c.scaled THEN scale(rows[j][ColumnOf(c.op)], rows[j].parameterScale)
                    ELSE rows[j][ColumnOf(c.op)]]

\* C13: whatever assignments to parameter_df and accessor calls went before,
\* the result of an accessor call is the value the table held at the time of
\* the call gives; the call leaves the table and the attributes of the Problem
\* as they are, so that it changes the result of no later call.
C13_NoStaleValues ==
    /\ [](call.op \in AccessorOps => result = Owed(call, parameter_df))
    /\ [][call'.op \in AccessorOps =>
            /\ result' = Owed(call', parameter_df)
            /\ parameter_df' = parameter_df
            /\ held' = held
            /\ replaced' = replaced]_vars

\* k2 was fixed and the table was replaced by one with k2 free: x_free_ids
\* has returned [k1, k2], where the replaced table gave [k1]
C13_Witness ==
    /\ call.op = "x_free_ids"
    /\ replaced # <<>> /\ Len(replaced[1]) = 2
    /\ replaced[1][1].parameterId = "k1" /\ replaced[1][1].estimate = 1
    /\ replaced[1][2].parameterId = "k2" /\ replaced[1][2].estimate = 0
    /\ parameter_df = [replaced[1] EXCEPT ![2].estimate = 1]
    /\ result = <<"k1", "k2">>

\* the table of the scenario replaced another table: get_ub(scaled=True) has
\* returned [10, log10(5)]
C13_WitnessScenario ==
    /\ call = Called("get_ub", TRUE, TRUE, TRUE)
    /\ replaced # <<>> /\ replaced[1] # ScenarioTable
    /\ parameter_df = ScenarioTable
    /\ result = <<Real(10), [ops |-> <<"log10">>, n |-> 5]>>

-----------------------------------------------------------------------------
(* scale_parameters and unscale_parameters *)

\* parameter_id is a label of the index of the table
HasId(df, parameter_id) == \E j \in 1..Len(df) : df[j].parameterId = parameter_id

\* the scale of the first row, whatever the id asked for
ScaleOfFirstRow(df, parameter_id) == df[1].parameterScale

\* self.parameter_df[PARAMETER_SCALE][parameter_id]
ScaleOf(df, parameter_id) ==
    df[CHOOSE j \in 1..Len(df) : df[j].parameterId = parameter_id].parameterScale

scale_parameters(df, x) ==
    [parameter_id \in DOMAIN x |-> scale(x[parameter_id], ScaleOf(df, parameter_id))]

\* unscale_parameters calling parameters.scale, as scale_parameters does
unscale_parameters_scaling(df, x) ==
    [parameter_id \in DOMAIN x |-> scale(x[parameter_id], ScaleOf(df, parameter_id))]

unscale_parameters(df, x) ==
    [parameter_id \in DOMAIN x |-> unscale(x[parameter_id], ScaleOf(df, parameter_id))]

\* the values a caller's mapping holds
DictValues == {-1, 0, 5}

Dicts == UNION {[keys -> {Real(v) : v \in DictValues}] : keys \in SUBSET ParamIds}

\* the tables of the scale utilities, which read the index and parameterScale only
ScaleTables == UNION {TablesOfLen(RowsOver({<<0, 2, 10>>}, {1}), n) : n \in 0..MaxRows}

notScaling == <<held, parameter_df, condition_df, measurement_df, x_dict, x_orig,
                writes, from_files_calls, replaced, self_dict, unpickled>>

InitScale ==
    /\ parameter_df \in ScaleTables
    /\ held = {"parameter_df"}
    /\ condition_df = <<>>
    /\ measurement_df = <<>>
    /\ x_dict \in Dicts
    /\ x_orig = <<>>
    /\ call = NoCall
    /\ result = EmptyDict
    /\ raised = "none"
    /\ writes = <<>>
    /\ from_files_calls = <<>>
    /\ replaced = <<>>
    /\ self_dict = <<>>
    /\ unpickled = <<>>

\* a key that is no label of the index raises KeyError inside the comprehension
CallScaleParameters ==
    /\ call' = Called("scale_parameters", TRUE, TRUE, FALSE)
    /\ IF \A k \in DOMAIN x_dict : HasId(parameter_df, k)
       THEN result' = scale_parameters(parameter_df, x_dict) /\ raised' = "none"
       ELSE result' = EmptyDict /\ raised' = "KeyError"
    /\ UNCHANGED notScaling

CallUnscaleParameters ==
    /\ call' = Called("unscale_parameters", TRUE, TRUE, FALSE)
    /\ IF \A k \in DOMAIN x_dict : HasId(parameter_df, k)
       THEN result' = unscale_parameters(parameter_df, x_dict) /\ raised' = "none"
       ELSE result' = EmptyDict /\ raised' = "KeyError"
    /\ UNCHANGED notScaling

\* the caller takes the mapping scale_parameters returned as its next argument, once
PassScaled ==
    /\ call.op = "scale_parameters" /\ raised = "none" /\ x_orig = <<>>
    /\ x_dict' = result
    /\ x_orig' = <<x_dict>>
    /\ call' = NoCall
    /\ result' = EmptyDict
    /\ UNCHANGED <<held, parameter_df, condition_df, measurement_df, raised, writes,
                   from_files_calls, replaced, self_dict, unpickled>>

NextScale ==
    \/ CallScaleParameters
    \/ CallUnscaleParameters
    \/ PassScaled

SpecScale == InitScale /\ [][NextScale]_vars

-----------------------------------------------------------------------------
(* Properties of the scale utilities *)

ScaleOps == {"scale_parameters", "unscale_parameters"}

\* the row of the table whose index label is k
RowOf(df, k) == CHOOSE r \in SeqRange(df) : r.parameterId = k

\* C4: unscale_parameters(scale_parameters({id: v})) == {id: v} for every id of the
\* table, of scale linear, log or log10, and every v > 0; for an id of scale
\* linear both functions return v unchanged, whatever v.  (Floats are exact
\* terms here, so "within tolerance" is equality.)
C4_ScaleRoundTrip ==
    /\ (call.op = "unscale_parameters" /\ raised = "none" /\ x_orig # <<>>) =>
            /\ DOMAIN result = DOMAIN x_orig[1]
            /\ \A k \in DOMAIN x_orig[1] : x_orig[1][k].n > 0 => result[k] = x_orig[1][k]
    /\ (call.op \in ScaleOps /\ raised = "none") =>
            \A k \in DOMAIN x_dict :
                RowOf(parameter_df, k).parameterScale = LIN => result[k] = x_dict[k]

\* k1 has scale log and k2 scale log10; {k1: 5, k2: 5} was scaled to
\* {k1: log(5), k2: log10(5)} and unscale_parameters has returned {k1: 5, k2: 5}
C4_Witness ==
    /\ call.op = "unscale_parameters" /\ raised = "none" /\ x_orig # <<>>
    /\ DOMAIN x_dict = {"k1", "k2"}
    /\ RowOf(parameter_df, "k1").parameterScale = LOG
    /\ RowOf(parameter_df, "k2").parameterScale = LOG10
    /\ x_dict["k1"] = [ops |-> <<"log">>, n |-> 5]
    /\ x_dict["k2"] = [ops |-> <<"log10">>, n |-> 5]
    /\ result["k1"] = Real(5) /\ result["k2"] = Real(5)

\* each value of the returned mapping is the value of x_dict under the function
\* the call applies for the scale the table records for its key
TransformedByOwnScale ==
    (call.op \in ScaleOps /\ raised = "none") =>
        /\ DOMAIN result = DOMAIN x_dict
        /\ \A k \in DOMAIN x_dict :
             LET s == RowOf(parameter_df, k).parameterScale
                 f == IF call.op = "scale_parameters"
                      THEN (CASE s = LIN -> "id" [] s = LOG -> "log" [] s = LOG10 -> "log10")
                      ELSE (CASE s = LIN -> "id" [] s = LOG -> "exp" [] s = LOG10 -> "pow10")
             IN result[k] = IF f = "id" THEN x_dict[k] ELSE ApplyFn(f, x_dict[k])

\* C5: scale_parameters(x_dict) and unscale_parameters(x_dict) return a mapping
\* with the keys of x_dict, each value transformed with the scale the parameter
\* table records for that key, and leave x_dict and the parameter table unchanged.
C5_ScaleFrame ==
    /\ []TransformedByOwnScale
    /\ [][call'.op \in ScaleOps => x_dict' = x_dict /\ parameter_df' = parameter_df]_vars

\* in a table of two rows of different scale, {k2: 5} keyed by the second row
\* has been scaled with that row's log10
C5_Witness ==
    /\ call.op = "scale_parameters" /\ raised = "none"
    /\ Len(parameter_df) = 2
    /\ parameter_df[1].parameterScale = LOG
    /\ parameter_df[2].parameterId = "k2" /\ parameter_df[2].parameterScale = LOG10
    /\ DOMAIN x_dict = {"k2"} /\ x_dict["k2"] = Real(5)
    /\ result["k2"] = [ops |-> <<"log10">>, n |-> 5]

-----------------------------------------------------------------------------
(* to_files and to_files_generic *)

\* A path is the sequence of its components; None is the empty sequence and the
\* empty string is <<"">>.  Both are false in a condition, every other path true.
None == <<>>

Truthy(path) == path # None /\ path # <<"">>

\* the entities to_files writes, in the order of its blocks
EntityOrder == <<"sbml", "condition", "measurement", "parameter", "observable",
                 "visualization">>

Entities == {EntityOrder[i] : i \in 1..Len(EntityOrder)}

\* the attribute to_files tests for an entity
Attr(entity) ==
    CASE entity = "sbml" -> "sbml_document"
      [] entity = "condition" -> "condition_df"
      [] entity = "measurement" -> "measurement_df"
      [] entity = "parameter" -> "parameter_df"
      [] entity = "observable" -> "observable_df"
      [] entity = "visualization" -> "visualization_df"

Attributes == {Attr(e) : e \in Entities}

\* the generic file names of to_files_generic
GenericName(entity) ==
    CASE entity = "sbml" -> <<"model.xml">>
      [] entity = "condition" -> <<"conditions.tsv">>
      [] entity = "measurement" -> <<"measurements.tsv">>
      [] entity = "parameter" -> <<"parameters.tsv">>
      [] entity = "observable" -> <<"observables.tsv">>
      [] entity = "visualization" -> <<"visualizations.tsv">>
      [] entity = "yaml" -> <<"problem.yaml">>

\* str(prefix_path / path0): joining the empty string leaves the prefix
add_prefix(prefix_path, path0) ==
    IF path0 = None THEN path0
    ELSE IF path0 = <<"">> THEN prefix_path
    ELSE prefix_path \o path0

\* the destinations after the prefix block of to_files
Prefixed(dests, prefix_path) ==
    IF prefix_path # None
    THEN [e \in DOMAIN dests |-> add_prefix(prefix_path, dests[e])]
    ELSE dests

\* yaml.create_problem_yaml(sbml_file, condition_file, ..., yaml_file, ...)
YamlWrite(d) == [entity |-> "yaml", path |-> d["yaml"]]

\* the blocks of to_files from block i on, a missing visualization table skipped
\* silently instead of raising
RECURSIVE ToFilesFromSkipping(_, _, _, _)
ToFilesFromSkipping(h, d, i, log) ==
    IF i > Len(EntityOrder)
    THEN [writes |-> IF Truthy(d["yaml"]) THEN Append(log, YamlWrite(d)) ELSE log,
          raised |-> "none"]
    ELSE LET e == EntityOrder[i]
         IN IF ~Truthy(d[e]) THEN ToFilesFromSkipping(h, d, i + 1, log)
            ELSE IF Attr(e) \in h
                 THEN ToFilesFromSkipping(h, d, i + 1,
                                          Append(log, [entity |-> e, path |-> d[e]]))
            ELSE IF e = "visualization" THEN ToFilesFromSkipping(h, d, i + 1, log)
            ELSE [writes |-> log, raised |-> "ValueError"]

to_files_skipping(h, dests, prefix_path) ==
    ToFilesFromSkipping(h, Prefixed(dests, prefix_path), 1, <<>>)

\* the blocks of to_files from block i on, every destination validated before
\* anything is written: a missing entity raises with no file written
RECURSIVE ToFilesFromAtomic(_, _, _, _)
ToFilesFromAtomic(h, d, i, log) ==
    IF i > Len(EntityOrder)
    THEN [writes |-> IF Truthy(d["yaml"]) THEN Append(log, YamlWrite(d)) ELSE log,
          raised |-> "none"]
    ELSE LET e == EntityOrder[i]
         IN IF ~Truthy(d[e]) THEN ToFilesFromAtomic(h, d, i + 1, log)
            ELSE IF Attr(e) \in h
                 THEN ToFilesFromAtomic(h, d, i + 1,
                                        Append(log, [entity |-> e, path |-> d[e]]))
            ELSE [writes |-> <<>>, raised |-> "ValueError"]

to_files_atomic(h, dests, prefix_path) ==
    ToFilesFromAtomic(h, Prefixed(dests, prefix_path), 1, <<>>)

\* the blocks of to_files from block i on: a destination whose entity is held is
\* written, one whose entity is None raises ValueError; the YAML file comes last
RECURSIVE ToFilesFrom(_, _, _, _)
ToFilesFrom(h, d, i, log) ==
    IF i > Len(EntityOrder)
    THEN [writes |-> IF Truthy(d["yaml"]) THEN Append(log, YamlWrite(d)) ELSE log,
          raised |-> "none"]
    ELSE LET e == EntityOrder[i]
         IN IF ~Truthy(d[e]) THEN ToFilesFrom(h, d, i + 1, log)
            ELSE IF Attr(e) \in h
                 THEN ToFilesFrom(h, d, i + 1, Append(log, [entity |-> e, path |-> d[e]]))
            ELSE [writes |-> log, raised |-> "ValueError"]

to_files(h, dests, prefix_path) ==
    ToFilesFrom(h, Prefixed(dests, prefix_path), 1, <<>>)

\* the filenames dictionary of to_files_generic, an absent key being None;
\* here a name is given to every table, held or not
filenames_unconditional(h) == [e \in Entities \cup {"yaml"} |-> GenericName(e)]

\* the filenames dictionary of to_files_generic, an absent key being None
filenames(h) ==
    [e \in Entities \cup {"yaml"} |->
        IF e = "yaml" \/ Attr(e) \in h THEN GenericName(e) ELSE None]

to_files_generic(h, prefix_path) ==
    LET run == to_files(h, filenames(h), prefix_path)
    IN [writes |-> run.writes, raised |-> run.raised,
        result |-> IF run.raised = "none"
                   THEN prefix_path \o filenames(h)["yaml"] ELSE None]

\* the destinations a caller passes for an entity: None, the empty string or a file name
DestsOf(entity) == {None, <<"">>, GenericName(entity)}

DestChoices ==
    [sbml : DestsOf("sbml"), condition : DestsOf("condition"),
     measurement : DestsOf("measurement"), parameter : DestsOf("parameter"),
     observable : DestsOf("observable"), visualization : DestsOf("visualization"),
     yaml : DestsOf("yaml")]

PrefixChoices == {<<"out">>, <<"tmp", "petab">>}

notWriting == <<held, parameter_df, condition_df, measurement_df, x_dict, x_orig,
                from_files_calls, replaced, self_dict, unpickled>>

InitFiles ==
    /\ held \in SUBSET Attributes
    /\ parameter_df = <<>>
    /\ condition_df = <<>>
    /\ measurement_df = <<>>
    /\ x_dict = EmptyDict
    /\ x_orig = <<>>
    /\ call = [op |-> "none"]
    /\ result = None
    /\ raised = "none"
    /\ writes = <<>>
    /\ from_files_calls = <<>>
    /\ replaced = <<>>
    /\ self_dict = <<>>
    /\ unpickled = <<>>

\* one call on a Problem as constructed
CallToFiles ==
    /\ call.op = "none"
    /\ \E dests \in DestChoices, prefix_path \in {None, <<"out">>} :
        LET run == to_files(held, dests, prefix_path)
        IN /\ call' = [op |-> "to_files", dests |-> dests, prefix_path |-> prefix_path]
           /\ writes' = run.writes
           /\ raised' = run.raised
           /\ result' = None
    /\ UNCHANGED notWriting

CallToFilesGeneric ==
    /\ call.op = "none"
    /\ \E prefix_path \in PrefixChoices :
        LET run == to_files_generic(held, prefix_path)
        IN /\ call' = [op |-> "to_files_generic", prefix_path |-> prefix_path]
           /\ writes' = run.writes
           /\ raised' = run.raised
           /\ result' = run.result
    /\ UNCHANGED notWriting

NextFiles ==
    \/ CallToFiles
    \/ CallToFilesGeneric

SpecFiles == InitFiles /\ [][NextFiles]_vars

-----------------------------------------------------------------------------
(* Properties of to_files and to_files_generic *)

\* a destination is passed for e: the argument, under the prefix, names a path
\* (None, and the empty string without a prefix, pass none)
Passed(e) ==
    /\ call.dests[e] # None
    /\ (call.dests[e] # <<"">> \/ call.prefix_path # None)

\* the path a passed destination stands for
Destination(e) ==
    IF call.prefix_path = None THEN call.dests[e]
    ELSE IF call.dests[e] = <<"">> THEN call.prefix_path
    ELSE call.prefix_path \o call.dests[e]

Written == {writes[i].entity : i \in 1..Len(writes)}

\* C6: to_files raises ValueError whenever a destination is passed for an entity
\* the Problem does not hold; when every passed destination has its entity it
\* raises no ValueError and writes exactly the entities (and the YAML file) for
\* which a destination was passed, each once, to its destination.
C6_ToFilesRaisesOrWrites ==
    call.op = "to_files" =>
        /\ (\E e \in Entities : Passed(e) /\ Attr(e) \notin held) => raised = "ValueError"
        /\ (\A e \in Entities : Passed(e) => Attr(e) \in held) =>
                /\ raised = "none"
                /\ Written = {e \in Entities \cup {"yaml"} : Passed(e)}
                /\ Len(writes) = Cardinality(Written)
                /\ \A i \in 1..Len(writes) : writes[i].path = Destination(writes[i].entity)

\* a Problem without visualization table was passed a visualization destination
\* after two destinations it could serve: ValueError
C6_Witness ==
    /\ call.op = "to_files"
    /\ held = {"sbml_document", "condition_df", "parameter_df"}
    /\ Passed("condition") /\ Passed("parameter") /\ Passed("visualization")
    /\ raised = "ValueError"

\* only the condition and parameter destinations were passed, under a prefix, to a
\* Problem holding more: exactly those two tables were written
C6_WitnessWrites ==
    /\ call.op = "to_files"
    /\ held = {"sbml_document", "condition_df", "measurement_df", "parameter_df"}
    /\ call.prefix_path = <<"out">>
    /\ {e \in Entities \cup {"yaml"} : Passed(e)} = {"condition", "parameter"}
    /\ raised = "none"
    /\ writes = <<[entity |-> "condition", path |-> <<"out", "conditions.tsv">>],
                  [entity |-> "parameter", path |-> <<"out", "parameters.tsv">>]>>

\* the place of an entity in the order of to_files, the YAML file last
Place(e) ==
    IF e = "yaml" THEN Len(EntityOrder) + 1
    ELSE CHOOSE i \in 1..Len(EntityOrder) : EntityOrder[i] = e

\* the passed destinations whose entity the Problem does not hold
Unservable == {e \in Entities : Passed(e) /\ Attr(e) \notin held}

\* C14: to_files writes in the order sbml, condition, measurement, parameter,
\* observable, visualization, YAML and stops at the first passed destination
\* whose entity is missing: when it raises ValueError, the YAML file and every
\* entity at or after that place are unwritten, and every entity before it
\* that had a destination is written.
C14_ToFilesOrder ==
    call.op = "to_files" =>
        /\ \A i, j \in 1..Len(writes) :
                i < j => Place(writes[i].entity) < Place(writes[j].entity)
        /\ raised = "ValueError" =>
            /\ Unservable # {}
            /\ LET stop == CHOOSE e \in Unservable :
                                \A f \in Unservable : Place(e) <= Place(f)
               IN /\ "yaml" \notin Written
                  /\ \A e \in Entities : Place(e) >= Place(stop) => e \notin Written
                  /\ \A e \in Entities :
                        (Place(e) < Place(stop) /\ Passed(e)) => e \in Written

\* all seven destinations were passed to a Problem without measurement and
\* observable table: the model and the condition table were written, then
\* ValueError; the parameter table and the YAML file were not written
C14_Witness ==
    /\ call.op = "to_files"
    /\ held = {"sbml_document", "condition_df", "parameter_df", "visualization_df"}
    /\ \A e \in Entities \cup {"yaml"} : call.dests[e] = GenericName(e)
    /\ call.prefix_path = None
    /\ raised = "ValueError"
    /\ writes = <<[entity |-> "sbml", path |-> <<"model.xml">>],
                  [entity |-> "condition", path |-> <<"conditions.tsv">>]>>

\* C7: to_files_generic(prefix_path) always creates the problem YAML file,
\* creates the data file of a table if and only if the Problem holds the table
\* and the model file if and only if sbml_document is set, never raises the
\* ValueError of to_files, and returns prefix_path/problem.yaml.
C7_ToFilesGeneric ==
    call.op = "to_files_generic" =>
        /\ raised = "none"
        /\ "yaml" \in Written
        /\ \A e \in Entities : e \in Written <=> Attr(e) \in held
        /\ \A i \in 1..Len(writes) :
                writes[i].path = call.prefix_path \o GenericName(writes[i].entity)
        /\ result = call.prefix_path \o <<"problem.yaml">>

\* a Problem holding the model, the condition and the parameter table only: three
\* files and the YAML file were written
C7_Witness ==
    /\ call.op = "to_files_generic"
    /\ held = {"sbml_document", "condition_df", "parameter_df"}
    /\ call.prefix_path = <<"out">>
    /\ Written = {"sbml", "condition", "parameter", "yaml"}
    /\ result = <<"out", "problem.yaml">>

-----------------------------------------------------------------------------
(* from_yaml and from_files *)

\* format_version.__format_version__, the supported format version
format_version == 1

\* the attributes a file argument of from_files sets (a false argument sets none)
Loaded(arg_name) ==
    CASE arg_name = "sbml_file" -> {"sbml_reader", "sbml_document", "sbml_model"}
      [] arg_name = "condition_file" -> {"condition_df"}
      [] arg_name = "measurement_file" -> {"measurement_df"}
      [] arg_name = "parameter_file" -> {"parameter_df"}
      [] arg_name = "visualization_files" -> {"visualization_df"}
      [] arg_name = "observable_files" -> {"observable_df"}

\* Problem.from_files: the attributes of the Problem it returns.  An argument
\* is a path or a list of paths; None, "" and the empty list are false.
from_files(args) ==
    UNION {Loaded(a) : a \in {b \in DOMAIN args : args[b] # <<>> /\ args[b] # <<"">>}}

\* how the caller gives the configuration: a dictionary, the name of a YAML file
\* as str or as Path, or a URL
ConfigKinds == {"dict", "str", "Path", "url"}

\* get_path of from_yaml: the file name as it is for a dictionary, under the
\* directory of the YAML file for a file name, under the parent URL for a URL
get_path(kind, filename) ==
    CASE kind = "dict" -> <<filename>>
      [] kind \in {"str", "Path"} -> <<"dir", filename>>
      [] kind = "url" -> <<"https://host/dir", filename>>

\* from_yaml with the check of the format version left out
from_yaml_unversioned(kind, cfg) ==
    IF cfg.composite
    THEN [raised |-> "ValueError", calls |-> <<>>, problem |-> <<>>]
    ELSE IF ~cfg.single
    THEN [raised |-> "NotImplementedError", calls |-> <<>>, problem |-> <<>>]
    ELSE LET paths(names) == [j \in 1..Len(names) |-> get_path(kind, names[j])]
             args == [sbml_file |-> get_path(kind, "model.xml"),
                      measurement_file |-> paths(cfg.measurement_files),
                      condition_file |-> get_path(kind, "conditions.tsv"),
                      parameter_file |-> IF cfg.parameter_list
                                         THEN paths(cfg.parameter_file)
                                         ELSE get_path(kind, cfg.parameter_file[1]),
                      visualization_files |-> paths(cfg.visualization_files),
                      observable_files |-> paths(cfg.observable_files)]
         IN [raised |-> "none", calls |-> <<args>>, problem |-> <<from_files(args)>>]

\* Problem.from_yaml.  cfg.composite is what yaml.is_composite_problem answers
\* and cfg.single whether yaml.assert_single_condition_and_sbml_file passes.
from_yaml(kind, cfg) ==
    IF cfg.composite
    THEN [raised |-> "ValueError", calls |-> <<>>, problem |-> <<>>]
    ELSE IF cfg.format_version # format_version
    THEN [raised |-> "ValueError", calls |-> <<>>, problem |-> <<>>]
    ELSE IF ~cfg.single
    THEN [raised |-> "NotImplementedError", calls |-> <<>>, problem |-> <<>>]
    ELSE LET paths(names) == [j \in 1..Len(names) |-> get_path(kind, names[j])]
             args == [sbml_file |-> get_path(kind, "model.xml"),
                      measurement_file |-> paths(cfg.measurement_files),
                      condition_file |-> get_path(kind, "conditions.tsv"),
                      parameter_file |-> IF cfg.parameter_list
                                         THEN paths(cfg.parameter_file)
                                         ELSE get_path(kind, cfg.parameter_file[1]),
                      visualization_files |-> paths(cfg.visualization_files),
                      observable_files |-> paths(cfg.observable_files)]
         IN [raised |-> "none", calls |-> <<args>>, problem |-> <<from_files(args)>>]

\* the configurations: parameter_file is a list (parameter_list) or one name;
\* the visualization and observable files are optional
Configs ==
    [composite : BOOLEAN,
     format_version : {format_version, format_version + 1},
     single : BOOLEAN,
     parameter_list : BOOLEAN,
     parameter_file : {<<"parameters.tsv">>},
     measurement_files : {<<"m1.tsv">>, <<"m1.tsv", "m2.tsv">>},
     visualization_files : {<<>>, <<"vis.tsv">>},
     observable_files : {<<>>, <<"observables.tsv">>}]

InitYaml ==
    /\ held = {}
    /\ parameter_df = <<>>
    /\ condition_df = <<>>
    /\ measurement_df = <<>>
    /\ x_dict = EmptyDict
    /\ x_orig = <<>>
    /\ call = [op |-> "none"]
    /\ result = <<>>
    /\ raised = "none"
    /\ writes = <<>>
    /\ from_files_calls = <<>>
    /\ replaced = <<>>
    /\ self_dict = <<>>
    /\ unpickled = <<>>

\* Problem.from_yaml(yaml_config); result is <<the attributes of the Problem
\* returned>>, or <<>> when none is returned
CallFromYaml ==
    \E kind \in ConfigKinds, cfg \in Configs :
        LET run == from_yaml(kind, cfg)
        IN /\ call' = [op |-> "from_yaml", kind |-> kind, yaml_config |-> cfg]
           /\ raised' = run.raised
           /\ from_files_calls' = run.calls
           /\ result' = run.problem
           /\ UNCHANGED <<held, parameter_df, condition_df, measurement_df, x_dict,
                          x_orig, writes, replaced, self_dict, unpickled>>

NextYaml == CallFromYaml

SpecYaml == InitYaml /\ [][NextYaml]_vars

-----------------------------------------------------------------------------
(* Properties of from_yaml *)

\* C8: from_yaml rejects a composite configuration with ValueError, and otherwise
\* a configuration whose format version is not the supported one with
\* ValueError; in both cases Problem.from_files is never invoked (no table or
\* model is loaded) and no Problem is returned.
C8_FromYamlRejects ==
    call.op = "from_yaml" =>
        LET cfg == call.yaml_config
        IN (cfg.composite \/ cfg.format_version # format_version) =>
                /\ raised = "ValueError"
                /\ from_files_calls = <<>>
                /\ result = <<>>

\* a single-problem configuration of format version 2 was rejected
C8_Witness ==
    /\ call.op = "from_yaml"
    /\ ~call.yaml_config.composite
    /\ call.yaml_config.single
    /\ call.yaml_config.format_version = 2
    /\ raised = "ValueError"
    /\ from_files_calls = <<>>

-----------------------------------------------------------------------------
(* The parameter mapping: petab.parameter_mapping, after sections 3 and 4.3 to  *)
(* 4.6 of the specification, and the method of Problem that delegates to it  *)

\* the largest number of rows of a condition table and of a measurement table
MaxConditionRows == 2
MaxMeasurementRows == 2

\* the parameters of the model, each with the model's own default value
ModelParams == {"p1", "p2"}

ModelDefault(p) == Real(1)

ConditionIds == {"c1", "c2"}

\* a row of the condition table assigns a literal value to a model parameter for
\* a condition
ConditionRows ==
    [conditionId : ConditionIds, parameter : ModelParams, value : {Real(3), Real(4)}]

\* the one observable; its noise formula is the placeholder noiseParameter1_obs1
ObservableIds == {"obs1"}

NoisePlaceholder(obs) == "noiseParameter1_obs1"

\* a row of the measurement table: one measurement at its own timepoint, with the
\* list of its noise-parameter overrides (empty: no override)
MeasurementRows ==
    [simulationConditionId : ConditionIds, preequilibrationConditionId : {""},
     observableId : ObservableIds, noiseParameters : {<<>>, <<Real(1)>>, <<Real(2)>>}]

SeqsUpTo(rows, n) == UNION {[1..k -> rows] : k \in 0..n}

\* SimulationCondition: the (simulation, preequilibration) pairs of the
\* measurement table, in the order of their first occurrence
RECURSIVE SimulationConditions(_, _)
SimulationConditions(mdf, i) ==
    IF i > Len(mdf) THEN <<>>
    ELSE LET sc == <<mdf[i].simulationConditionId, mdf[i].preequilibrationConditionId>>
             seen == \E j \in 1..(i - 1) :
                         sc = <<mdf[j].simulationConditionId,
                                mdf[j].preequilibrationConditionId>>
         IN IF seen THEN SimulationConditions(mdf, i + 1)
            ELSE <<sc>> \o SimulationConditions(mdf, i + 1)

\* 4.5: the distinct override lists the rows of a group supply
GroupOverrides(mdf, sc, obs) ==
    {mdf[i].noiseParameters : i \in {j \in 1..Len(mdf) :
        /\ mdf[j].simulationConditionId = sc[1]
        /\ mdf[j].preequilibrationConditionId = sc[2]
        /\ mdf[j].observableId = obs}}

\* 4.5: the rows of some group diverge
TimepointSpecific(mdf) ==
    \E i \in 1..Len(mdf) :
        Cardinality(GroupOverrides(mdf,
            <<mdf[i].simulationConditionId, mdf[i].preequilibrationConditionId>>,
            mdf[i].observableId)) > 1

\* 4.6: two rows assign different values to one parameter for one condition id
Ambiguous(cdf) ==
    \E a, b \in 1..Len(cdf) :
        /\ cdf[a].conditionId = cdf[b].conditionId
        /\ cdf[a].parameter = cdf[b].parameter
        /\ cdf[a].value # cdf[b].value

\* 4.3: the condition id is in the condition table
KnownCondition(cdf, c) == \E a \in 1..Len(cdf) : cdf[a].conditionId = c

\* an entry of a mapping: a literal (symbol "") or a symbol left unresolved, and
\* its scale; a literal has scale linear
Literal(v) == [symbol |-> "", value |-> v, scale |-> LIN]

Symbol(name) == [symbol |-> name, value |-> Real(0), scale |-> LIN]

\* 4.6, layers 1 and 2: the model default, overridden by the condition table
ResolveParameter(cdf, c, p) ==
    IF \E a \in 1..Len(cdf) : cdf[a].conditionId = c /\ cdf[a].parameter = p
    THEN Literal(cdf[CHOOSE a \in 1..Len(cdf) :
                        cdf[a].conditionId = c /\ cdf[a].parameter = p].value)
    ELSE Literal(ModelDefault(p))

\* 4.6, layer 3: the placeholder takes the override of its group; without one it
\* stays unresolved, and a group accepted as timepoint-specific is marked so
ResolvePlaceholder(mdf, sc, obs) ==
    LET overrides == GroupOverrides(mdf, sc, obs)
    IN IF Cardinality(overrides) > 1 THEN Symbol("timepoint-specific")
       ELSE IF overrides = {<<>>} THEN Symbol(NoisePlaceholder(obs))
       ELSE Literal((CHOOSE o \in overrides : TRUE)[1])

Placeholders == {NoisePlaceholder(o) : o \in ObservableIds}

\* the ParameterMapping of a SimulationCondition; no preequilibration mapping
MappingFor(cdf, mdf, sc) ==
    [condition |-> sc[1],
     preequilibration |-> <<>>,
     map |-> [name \in ModelParams \cup Placeholders |->
                IF name \in ModelParams THEN ResolveParameter(cdf, sc[1], name)
                ELSE ResolvePlaceholder(mdf, sc, CHOOSE o \in ObservableIds :
                                                      NoisePlaceholder(o) = name)]]

\* the (condition, placeholder) pairs whose placeholder stayed unresolved
Unmapped(mappings) ==
    {w \in ConditionIds \X Placeholders :
        \E i \in 1..Len(mappings) :
            mappings[i].condition = w[1] /\ mappings[i].map[w[2]].symbol = w[2]}

Failed(error) == [raised |-> error, mappings |-> <<>>, warnings |-> {}]

\* parameter_mapping.get_optimization_to_simulation_parameter_mapping: the
\* measurement table is grouped and checked first (4.5), then the condition
\* table (4.6, 4.3); then one mapping per SimulationCondition.  The unresolved
\* placeholders are warnings when warn_unmapped is set.  parameter_df,
\* observable_df and sbml_model are ObservableIds, ModelParams and ModelDefault
\* above; scaled_parameters leaves literals (scale linear) as they are.
parameter_mapping(cdf, mdf, warn_unmapped, scaled_parameters, allow_timepoint_specific) ==
    LET scs == SimulationConditions(mdf, 1)
    IN IF TimepointSpecific(mdf) /\ ~allow_timepoint_specific
       THEN Failed("TimepointSpecificNumericOverride")
       ELSE IF Ambiguous(cdf) THEN Failed("AmbiguousOverride")
       ELSE IF \E i \in 1..Len(scs) : ~KnownCondition(cdf, scs[i][1])
       THEN Failed("UnknownCondition")
       ELSE LET mappings == [i \in 1..Len(scs) |-> MappingFor(cdf, mdf, scs[i])]
            IN [raised |-> "none",
                mappings |-> mappings,
                warnings |-> IF warn_unmapped THEN Unmapped(mappings) ELSE {}]

\* an argument left out takes its default
ArgOr(arg, default) == IF arg = "default" THEN default ELSE arg = "True"

\* the method with allow_timepoint_specific_numeric_noise_parameters not handed on
get_mapping_dropping_allow(cdf, mdf, warn_unmapped, scaled_parameters, allow) ==
    parameter_mapping(cdf, mdf, ArgOr(warn_unmapped, TRUE),
                      ArgOr(scaled_parameters, FALSE), FALSE)

\* the method handing on the measurement table but no condition table
get_mapping_without_conditions(cdf, mdf, warn_unmapped, scaled_parameters, allow) ==
    parameter_mapping(<<>>, mdf, ArgOr(warn_unmapped, TRUE),
                      ArgOr(scaled_parameters, FALSE), ArgOr(allow, FALSE))

\* the method with warn_unmapped not handed on, so that the engine's default applies
get_mapping_dropping_warn(cdf, mdf, warn_unmapped, scaled_parameters, allow) ==
    parameter_mapping(cdf, mdf, TRUE,
                      ArgOr(scaled_parameters, FALSE), ArgOr(allow, FALSE))

\* the method handing on the condition table without its duplicated entries
\* (of the rows for one condition id and parameter, the first only)
get_mapping_dropping_duplicates(cdf, mdf, warn_unmapped, scaled_parameters, allow) ==
    LET first(a) == \A b \in 1..(a - 1) :
                        cdf[b].conditionId # cdf[a].conditionId
                            \/ cdf[b].parameter # cdf[a].parameter
        kept == {a \in 1..Len(cdf) : first(a)}
        nth(j) == CHOOSE a \in kept : Cardinality({b \in kept : b < a}) = j - 1
    IN parameter_mapping([j \in 1..Cardinality(kept) |-> cdf[nth(j)]], mdf,
                         ArgOr(warn_unmapped, TRUE),
                         ArgOr(scaled_parameters, FALSE), ArgOr(allow, FALSE))

\* Problem.get_optimization_to_simulation_parameter_mapping(warn_unmapped=True,
\* scaled_parameters=False, allow_timepoint_specific_numeric_noise_parameters=False)
get_optimization_to_simulation_parameter_mapping(cdf, mdf, warn_unmapped, scaled_parameters, allow) ==
    parameter_mapping(cdf, mdf, ArgOr(warn_unmapped, TRUE),
                      ArgOr(scaled_parameters, FALSE), ArgOr(allow, FALSE))

InitMapping ==
    /\ held = {"sbml_model", "condition_df", "measurement_df", "parameter_df",
               "observable_df"}
    /\ parameter_df = <<>>
    /\ condition_df \in SeqsUpTo(ConditionRows, MaxConditionRows)
    /\ measurement_df \in SeqsUpTo(MeasurementRows, MaxMeasurementRows)
    /\ x_dict = EmptyDict
    /\ x_orig = <<>>
    /\ call = [op |-> "none"]
    /\ result = Failed("none")
    /\ raised = "none"
    /\ writes = <<>>
    /\ from_files_calls = <<>>
    /\ replaced = <<>>
    /\ self_dict = <<>>
    /\ unpickled = <<>>

\* one call on a Problem as constructed, each argument given or left out
CallMapping ==
    /\ call.op = "none"
    /\ \E warn_unmapped \in {"default", "False"}, scaled_parameters \in {"default", "True"},
          allow \in {"default", "True", "False"} :
        LET run == get_optimization_to_simulation_parameter_mapping(
                       condition_df, measurement_df, warn_unmapped, scaled_parameters, allow)
        IN /\ call' = [op |-> "get_optimization_to_simulation_parameter_mapping",
                       warn_unmapped |-> warn_unmapped,
                       scaled_parameters |-> scaled_parameters,
                       allow |-> allow]
           /\ result' = run
           /\ raised' = run.raised
    /\ UNCHANGED <<held, parameter_df, condition_df, measurement_df, x_dict, x_orig,
                   writes, from_files_calls, replaced, self_dict, unpickled>>

NextMapping == CallMapping

SpecMapping == InitMapping /\ [][NextMapping]_vars

-----------------------------------------------------------------------------
(* Properties of the parameter mapping *)

MappingOp == "get_optimization_to_simulation_parameter_mapping"

SameGroup(a, b) ==
    /\ measurement_df[a].simulationConditionId = measurement_df[b].simulationConditionId
    /\ measurement_df[a].preequilibrationConditionId =
            measurement_df[b].preequilibrationConditionId
    /\ measurement_df[a].observableId = measurement_df[b].observableId

\* two rows of one group supply numeric overrides that differ
DifferingNumericOverrides ==
    \E a, b \in 1..Len(measurement_df) :
        /\ SameGroup(a, b)
        /\ measurement_df[a].noiseParameters # <<>>
        /\ measurement_df[b].noiseParameters # <<>>
        /\ measurement_df[a].noiseParameters # measurement_df[b].noiseParameters

\* the rows of every group supply the same override list
NoGroupDiverges ==
    \A a, b \in 1..Len(measurement_df) :
        SameGroup(a, b) =>
            measurement_df[a].noiseParameters = measurement_df[b].noiseParameters

\* the rows of the group of condition c and observable obs
RowsOfGroup(c, obs) ==
    {a \in 1..Len(measurement_df) :
        measurement_df[a].simulationConditionId = c /\ measurement_df[a].observableId = obs}

\* C9: when all rows of a (simulation condition, preequilibration condition,
\* observable) group supply the same noise-parameter override, it is resolved as
\* a constant of the condition; when rows of a group supply differing numeric
\* overrides the computation raises TimepointSpecificNumericOverride, unless
\* allow_timepoint_specific_numeric_noise_parameters is true, and then they are
\* accepted; the method of Problem hands the flag on, False when left out.
C9_TimepointSpecificOverrides ==
    call.op = MappingOp =>
        LET allow == call.allow = "True"
        IN /\ (DifferingNumericOverrides /\ ~allow) =>
                    raised = "TimepointSpecificNumericOverride"
           /\ (DifferingNumericOverrides /\ allow) =>
                    /\ raised # "TimepointSpecificNumericOverride"
                    /\ raised = "none" =>
                         \E i \in 1..Len(result.mappings) :
                            result.mappings[i].map["noiseParameter1_obs1"].symbol =
                                "timepoint-specific"
           /\ NoGroupDiverges => raised # "TimepointSpecificNumericOverride"
           /\ raised = "none" =>
                \A i \in 1..Len(result.mappings) :
                    LET rows == RowsOfGroup(result.mappings[i].condition, "obs1")
                    IN \A a \in rows :
                        (/\ measurement_df[a].noiseParameters # <<>>
                         /\ \A b \in rows : measurement_df[b].noiseParameters =
                                              measurement_df[a].noiseParameters) =>
                            result.mappings[i].map["noiseParameter1_obs1"] =
                                [symbol |-> "", value |-> measurement_df[a].noiseParameters[1],
                                 scale |-> LIN]

\* the two rows of (c1, obs1) supply the overrides 1 and 2 and the flag was left
\* out: TimepointSpecificNumericOverride
C9_Witness ==
    /\ call.op = MappingOp /\ call.allow = "default"
    /\ Len(measurement_df) = 2
    /\ measurement_df[1].simulationConditionId = "c1"
    /\ measurement_df[2].simulationConditionId = "c1"
    /\ measurement_df[1].noiseParameters = <<Real(1)>>
    /\ measurement_df[2].noiseParameters = <<Real(2)>>
    /\ raised = "TimepointSpecificNumericOverride"

\* rows of a group differ and the flag was set: the mapping was computed
C9_WitnessAccepted ==
    /\ call.op = MappingOp /\ call.allow = "True"
    /\ DifferingNumericOverrides
    /\ raised = "none"

\* both rows of the one group supply the override 1: the placeholder is 1
C9_WitnessConstant ==
    /\ call.op = MappingOp /\ raised = "none"
    /\ Len(measurement_df) = 2 /\ Len(result.mappings) = 1
    /\ measurement_df[1].noiseParameters = <<Real(1)>>
    /\ measurement_df[2].noiseParameters = <<Real(1)>>
    /\ result.mappings[1].map["noiseParameter1_obs1"].value = Real(1)

\* the inputs of the computation have none of its three errors
MappingInputsValid ==
    /\ NoGroupDiverges \/ call.allow = "True"
    /\ \A a, b \in 1..Len(condition_df) :
            (/\ condition_df[a].conditionId = condition_df[b].conditionId
             /\ condition_df[a].parameter = condition_df[b].parameter) =>
                condition_df[a].value = condition_df[b].value
    /\ \A a \in 1..Len(measurement_df) : \E b \in 1..Len(condition_df) :
            condition_df[b].conditionId = measurement_df[a].simulationConditionId

\* C10: for every simulation condition c and model parameter p, the mapping for
\* c reports p -> the literal the condition table assigns p for c, with scale
\* linear, and not the model default; a parameter the table does not mention
\* for c keeps the model default.
C10_ConditionOverridesDefault ==
    call.op = MappingOp =>
        /\ MappingInputsValid => raised = "none"
        /\ raised = "none" =>
            /\ {result.mappings[i].condition : i \in 1..Len(result.mappings)} =
                    {measurement_df[a].simulationConditionId : a \in 1..Len(measurement_df)}
            /\ \A i \in 1..Len(result.mappings), p \in ModelParams :
                    LET c == result.mappings[i].condition
                        rows == {a \in 1..Len(condition_df) :
                                    /\ condition_df[a].conditionId = c
                                    /\ condition_df[a].parameter = p}
                        entry == result.mappings[i].map[p]
                    IN IF rows # {}
                       THEN \A a \in rows :
                                entry = [symbol |-> "", value |-> condition_df[a].value,
                                         scale |-> LIN]
                       ELSE entry = [symbol |-> "", value |-> ModelDefault(p),
                                     scale |-> LIN]

\* the condition table sets p1 to 3 for c1, the model default being 1: the
\* mapping for c1 reports p1 -> 3 with scale linear, and p2 -> 1
C10_Witness ==
    /\ call.op = MappingOp /\ raised = "none"
    /\ condition_df = <<[conditionId |-> "c1", parameter |-> "p1", value |-> Real(3)]>>
    /\ Len(result.mappings) = 1
    /\ result.mappings[1].condition = "c1"
    /\ result.mappings[1].map["p1"] = [symbol |-> "", value |-> Real(3), scale |-> LIN]
    /\ result.mappings[1].map["p2"] = [symbol |-> "", value |-> Real(1), scale |-> LIN]

\* the simulation conditions of the measurement table no row of which supplies
\* an override for the placeholder of obs1
WithoutOverride ==
    {c \in ConditionIds :
        /\ RowsOfGroup(c, "obs1") # {}
        /\ \A a \in RowsOfGroup(c, "obs1") : measurement_df[a].noiseParameters = <<>>}

\* C11: a placeholder without override never aborts the mapping, whatever
\* warn_unmapped: an exception is one of the three errors of the inputs and has
\* its cause in them; otherwise the result is complete, with one mapping per
\* simulation condition, the placeholder of a condition without override left
\* as the unresolved symbol, and the warnings are exactly those placeholders
\* when warn_unmapped is true (the default) and none when it is false.
C11_UnmappedNeverAborts ==
    call.op = MappingOp =>
        /\ raised \in {"none", "TimepointSpecificNumericOverride", "AmbiguousOverride",
                       "UnknownCondition"}
        /\ raised # "none" => ~MappingInputsValid
        /\ raised = "none" =>
            /\ Len(result.mappings) =
                    Cardinality({measurement_df[a].simulationConditionId :
                                    a \in 1..Len(measurement_df)})
            /\ \A c \in WithoutOverride : \E i \in 1..Len(result.mappings) :
                    /\ result.mappings[i].condition = c
                    /\ result.mappings[i].map["noiseParameter1_obs1"].symbol =
                            "noiseParameter1_obs1"
            /\ \A i \in 1..Len(result.mappings) :
                    result.mappings[i].condition \notin WithoutOverride =>
                        result.mappings[i].map["noiseParameter1_obs1"].symbol #
                            "noiseParameter1_obs1"
            /\ call.warn_unmapped = "default" =>
                    result.warnings = WithoutOverride \X {"noiseParameter1_obs1"}
            /\ call.warn_unmapped = "False" => result.warnings = {}

\* c1 has no override and c2 the override 1; with warn_unmapped left out both
\* mappings were produced, c1's placeholder unresolved and reported, c2's resolved
C11_Witness ==
    /\ call.op = MappingOp /\ call.warn_unmapped = "default" /\ raised = "none"
    /\ Len(measurement_df) = 2
    /\ measurement_df[1].simulationConditionId = "c1"
    /\ measurement_df[1].noiseParameters = <<>>
    /\ measurement_df[2].simulationConditionId = "c2"
    /\ measurement_df[2].noiseParameters = <<Real(1)>>
    /\ Len(result.mappings) = 2
    /\ result.mappings[1].map["noiseParameter1_obs1"].symbol = "noiseParameter1_obs1"
    /\ result.mappings[2].map["noiseParameter1_obs1"] =
            [symbol |-> "", value |-> Real(1), scale |-> LIN]
    /\ result.warnings = {<<"c1", "noiseParameter1_obs1">>}

\* the same tables with warn_unmapped=False: the same mappings and no warning
C11_WitnessSilent ==
    /\ call.op = MappingOp /\ call.warn_unmapped = "False" /\ raised = "none"
    /\ WithoutOverride = {"c1"}
    /\ Len(result.mappings) = 2
    /\ result.warnings = {}

\* two rows of the condition table assign differing literals to one model
\* parameter for one condition id
ConflictingRows ==
    \E a, b \in 1..Len(condition_df) :
        /\ a # b
        /\ condition_df[a].conditionId = condition_df[b].conditionId
        /\ condition_df[a].parameter = condition_df[b].parameter
        /\ condition_df[a].value # condition_df[b].value

-----------------------------------------------------------------------------
(* __getstate__ and __setstate__: the state of a Problem for pickling.  The  *)
(* value of an attribute is None or an object, a tuple naming its type and   *)
(* its content.                                                              *)

TableAttrs ==
    {"condition_df", "measurement_df", "parameter_df", "visualization_df", "observable_df"}

SbmlAttrs == {"sbml_reader", "sbml_document", "sbml_model"}

\* the tables and models a Problem is constructed with
DataFrames == {<<"DataFrame", "a">>, <<"DataFrame", "b">>}

Models == {<<"Model", "m1">>, <<"Model", "m2">>}

\* Problem.__init__: every argument, None by default, becomes an attribute
Constructed ==
    [condition_df : {None} \cup DataFrames,
     measurement_df : {None} \cup DataFrames,
     parameter_df : {None} \cup DataFrames,
     visualization_df : {None} \cup DataFrames,
     observable_df : {None} \cup DataFrames,
     sbml_reader : {None, <<"SBMLReader", "file">>},
     sbml_document : {None, <<"SBMLDocument", "file">>},
     sbml_model : {None} \cup Models]

\* libsbml.SBMLWriter().writeSBMLToString(sbml_model.getSBMLDocument())
writeSBMLToString(sbml_model) == <<"str", sbml_model[2]>>

\* sbml.load_sbml_from_string: a new reader, document and model of the string
load_sbml_from_string(sbml_string) ==
    [sbml_reader |-> <<"SBMLReader", "string">>,
     sbml_document |-> <<"SBMLDocument", sbml_string[2]>>,
     sbml_model |-> <<"Model", sbml_string[2]>>]

\* dict.update
update(d, other) ==
    [k \in DOMAIN d \cup DOMAIN other |-> IF k \in DOMAIN other THEN other[k] ELSE d[k]]

\* the dictionary without the keys popped
without(d, keys) == [k \in DOMAIN d \ keys |-> d[k]]

\* Problem.__getstate__ on an object whose __dict__ is d: the __dict__ it
\* leaves and the state it returns.  Reading self.sbml_model raises
\* AttributeError when the attribute does not exist, state.pop(key) KeyError
\* when the key does not.
getstate(d) ==
    IF "sbml_model" \notin DOMAIN d
    THEN [raised |-> "AttributeError", self |-> d, state |-> <<>>]
    ELSE LET copy == IF d["sbml_model"] # None
                     THEN update(d, [sbml_string |-> writeSBMLToString(d["sbml_model"])])
                     ELSE d
         IN IF ~(SbmlAttrs \subseteq DOMAIN copy)
            THEN [raised |-> "KeyError", self |-> d, state |-> <<>>]
            ELSE [raised |-> "none", self |-> d, state |-> without(copy, SbmlAttrs)]

\* Problem.__setstate__(state) on an object whose __dict__ is d: the __dict__ after
setstate(d, state) ==
    LET sbml_string == IF "sbml_string" \in DOMAIN state THEN state["sbml_string"] ELSE None
        popped == without(state, {"sbml_string"})
        loaded == IF sbml_string # None
                  THEN update(d, load_sbml_from_string(sbml_string))
                  ELSE d
    IN update(loaded, popped)

InitPickle ==
    /\ self_dict \in Constructed
    /\ held = {a \in TableAttrs \cup SbmlAttrs : self_dict[a] # None}
    /\ parameter_df = <<>>
    /\ condition_df = <<>>
    /\ measurement_df = <<>>
    /\ x_dict = EmptyDict
    /\ x_orig = <<>>
    /\ call = [op |-> "none"]
    /\ result = <<>>
    /\ raised = "none"
    /\ writes = <<>>
    /\ from_files_calls = <<>>
    /\ replaced = <<>>
    /\ unpickled = <<>>

notPickling == <<held, parameter_df, condition_df, measurement_df, x_dict, x_orig,
                 writes, from_files_calls, replaced>>

\* pickling the Problem: __getstate__ on the object as constructed
CallGetState ==
    /\ call.op = "none"
    /\ LET run == getstate(self_dict)
       IN /\ call' = [op |-> "__getstate__", of |-> "self", dict |-> self_dict]
          /\ self_dict' = run.self
          /\ result' = run.state
          /\ raised' = run.raised
    /\ UNCHANGED <<unpickled>>
    /\ UNCHANGED notPickling

\* unpickling: the object is made without __init__, its __dict__ empty, and
\* __setstate__ is applied to the state __getstate__ returned
CallSetState ==
    /\ call.op = "__getstate__" /\ call.of = "self" /\ raised = "none"
    /\ call' = [op |-> "__setstate__", of |-> "unpickled", dict |-> <<>>]
    /\ unpickled' = setstate(<<>>, result)
    /\ UNCHANGED <<self_dict, result, raised>>
    /\ UNCHANGED notPickling

\* pickling the unpickled object in turn
CallGetStateUnpickled ==
    /\ call.op = "__setstate__"
    /\ LET run == getstate(unpickled)
       IN /\ call' = [op |-> "__getstate__", of |-> "unpickled", dict |-> unpickled]
          /\ unpickled' = run.self
          /\ result' = run.state
          /\ raised' = run.raised
    /\ UNCHANGED <<self_dict>>
    /\ UNCHANGED notPickling

NextPickle ==
    \/ CallGetState
    \/ CallSetState
    \/ CallGetStateUnpickled

SpecPickle == InitPickle /\ [][NextPickle]_vars

\* C15: __getstate__ leaves the attributes of the Problem unchanged and returns
\* a state without the keys sbml_reader, sbml_document and sbml_model, with
\* the key sbml_string if and only if sbml_model is set; after __setstate__ of
\* that state the five table attributes equal the original's, and sbml_reader,
\* sbml_document and sbml_model all exist, loaded from the serialized model
\* when there was one and None otherwise.
C15_PickleRoundTrip ==
    /\ (call.op = "__getstate__" /\ call.of = "self") =>
            /\ raised = "none"
            /\ self_dict = call.dict
            /\ DOMAIN result \cap SbmlAttrs = {}
            /\ ("sbml_string" \in DOMAIN result) <=> (self_dict["sbml_model"] # None)
    /\ call.op = "__setstate__" =>
            /\ \A a \in TableAttrs :
                    a \in DOMAIN unpickled /\ unpickled[a] = self_dict[a]
            /\ SbmlAttrs \subseteq DOMAIN unpickled
            /\ \A a \in SbmlAttrs :
                    unpickled[a] =
                        IF self_dict["sbml_model"] # None
                        THEN load_sbml_from_string(
                                 writeSBMLToString(self_dict["sbml_model"]))[a]
                        ELSE None

====
